---- MODULE Spec2Model ----
(***************************************************************************)
(* Nutrimate backend (src/backend/main.py): a FastAPI facade over two      *)
(* Firestore collections, "users" (keyed by email) and "meals" (keyed by   *)
(* "<email>_<utc timestamp>"), with bcrypt password hashes and HS256       *)
(* session tokens.                                                         *)
(*                                                                         *)
(* Time is a count of clock ticks (the microseconds of datetime.utcnow()). *)
(* The model's calendar is scaled: a second has MicrosPerSec ticks and a   *)
(* day has SecsPerDay seconds; ACCESS_TOKEN_EXPIRE_MINUTES (60 * 24) is    *)
(* one day.  Fractional macro values are kept in tenths.                   *)
(*                                                                         *)
(* FastAPI runs the dependency get_current_user and each "def" handler on  *)
(* a thread pool, so requests overlap.  A request is a process: every step *)
(* is one access to what requests share (a Firestore round trip or a       *)
(* reading of the clock) together with the local computation around it,    *)
(* and the steps of the requests in flight interleave.                     *)
(***************************************************************************)
EXTENDS Integers, Sequences, FiniteSets, Bags, TLC

VARIABLES
    now,            \* the UTC clock read by datetime.utcnow()
    bcryptLegacy,   \* the installed bcrypt: TRUE truncates at 72 bytes, FALSE raises
    users,          \* collection "users": document id (email) -> document
    meals,          \* collection "meals": document id -> document
    issued,         \* the tokens /login has returned
    resp,           \* the response the last step sent, if it sent one
    calls,          \* history: the /add-meal and /analyze calls that returned 200
    regs,           \* history: the /register calls that returned 200
    flight          \* the requests in flight (a bag), each at its next step

vars == <<now, bcryptLegacy, users, meals, issued, resp, calls, regs, flight>>

\* ---------------------------------------------------------------- bounds
MicrosPerSec == 2
SecsPerDay == 1
MaxTime == 3
MaxMeals == 2
MaxTokens == 2
MaxInFlight == 2

\* ------------------------------------------------------------- constants
SECRET_KEY == "supersecretkey"
TicksPerDay == SecsPerDay * MicrosPerSec
\* 60 * 24 minutes: one day, in ticks
ACCESS_TOKEN_EXPIRE_MINUTES == TicksPerDay
\* bcrypt reads at most this many bytes of a password
BcryptMaxBytes == 72

\* ---------------------------------------------------------------- inputs
Emails == {"a@x.com", "b@x.com"}
Pad72 == [i \in 1..BcryptMaxBytes |-> "a"]
Passwords == {<<"p", "w">>, Pad72, Pad72 \o <<"x">>}
Salts == {1, 2}
Names == {"Ann"}
BowlSizes == {250}
TargetWeights == {60}
Goals == {-5, 0, 2200}
MealNames == {"Meal"}
MacroKeys == {"calories", "protein", "carbs", "fats"}
MacroInputs ==
    { [calories |-> 300, protein |-> 125, carbs |-> 300, fats |-> 80] }
\* a base64 payload: decodable to len bytes, or not decodable
Images == { [ok |-> TRUE, len |-> 7], [ok |-> FALSE, len |-> 0] }

RegisterReqs ==
    [name : Names, email : Emails, password : Passwords,
     bowl_size : BowlSizes, target_weight : TargetWeights]
LoginReqs == [email : Emails, password : Passwords]
GoalReqs == [goal : Goals]
MealReqs == [name : MealNames, macros : MacroInputs]
AnalyzeReqs == [image : Images]

\* ------------------------------------------------------------------ time
\* datetime.isoformat(): "YYYY-MM-DD", "THH:MM:SS" and, unless it is zero,
\* ".ffffff"; strings compare as Python compares them, a proper prefix first
isoformat(t) ==
    IF t % MicrosPerSec = 0
    THEN <<t \div TicksPerDay, (t \div MicrosPerSec) % SecsPerDay>>
    ELSE <<t \div TicksPerDay, (t \div MicrosPerSec) % SecsPerDay, t % MicrosPerSec>>

\* strftime("%Y-%m-%d")
strftime_date(t) == <<t \div TicksPerDay>>

\* s[:10]
Prefix10(s) == SubSeq(s, 1, 1)

StrLess(a, b) ==
    \E i \in 1..Len(b) :
        /\ \A j \in 1..(i - 1) : j <= Len(a) /\ a[j] = b[j]
        /\ \/ i = Len(a) + 1
           \/ i <= Len(a) /\ a[i] < b[i]

\* ---------------------------------------------------------------- bcrypt
\* bcrypt.hashpw(password, salt): the hash holds the salt and depends on the
\* first 72 bytes of the password only
hashpw(password, salt) ==
    [salt |-> salt,
     digest |-> SubSeq(password, 1,
                       IF Len(password) < BcryptMaxBytes
                       THEN Len(password) ELSE BcryptMaxBytes)]

\* bcrypt.checkpw(password, hashed)
checkpw(password, hashed) == hashpw(password, hashed.salt) = hashed

\* bcrypt >= 5 raises ValueError on a password longer than 72 bytes
BcryptRaises(password) == ~bcryptLegacy /\ Len(password) > BcryptMaxBytes

\* ------------------------------------------------------------------- jwt
NoAuth == [bearer |-> FALSE, sub |-> "", exp |-> 0, key |-> ""]

Bearer(token) ==
    [bearer |-> TRUE, sub |-> token.sub, exp |-> token.exp, key |-> token.key]

\* jwt.encode turns the datetime "exp" into whole seconds since the epoch
create_access_token(data, t) ==
    [sub |-> data.sub,
     exp |-> (t + ACCESS_TOKEN_EXPIRE_MINUTES) \div MicrosPerSec,
     key |-> SECRET_KEY]

\* jwt_decode with verify_exp switched off
jwt_decode_ignoring_exp(token, key, t) ==
    IF token.key # key THEN "InvalidTokenError" ELSE "ok"

\* jwt_decode with verify_signature switched off
jwt_decode_ignoring_signature(token, key, t) ==
    IF token.exp * MicrosPerSec <= t THEN "ExpiredSignatureError" ELSE "ok"

\* jwt.decode: the signature, then the expiry (exp <= now is expired)
jwt_decode(token, key, t) ==
    IF token.key # key THEN "InvalidTokenError"
    ELSE IF token.exp * MicrosPerSec <= t THEN "ExpiredSignatureError"
    ELSE "ok"

get_current_user(auth, t) ==
    IF ~auth.bearer THEN [ok |-> FALSE, email |-> "", detail |-> "Missing token"]
    ELSE IF jwt_decode(auth, SECRET_KEY, t) = "ExpiredSignatureError"
    THEN [ok |-> FALSE, email |-> "", detail |-> "Token expired"]
    ELSE IF jwt_decode(auth, SECRET_KEY, t) = "InvalidTokenError"
    THEN [ok |-> FALSE, email |-> "", detail |-> "Invalid token"]
    ELSE IF auth.sub = ""
    THEN [ok |-> FALSE, email |-> "", detail |-> "Invalid token"]
    ELSE [ok |-> TRUE, email |-> auth.sub, detail |-> ""]

\* a token signed with another key, and one signed with the server's key
\* that /login never returned; both expire after the model's last tick
FarExp == MaxTime \div MicrosPerSec + 1
ForeignTokens == { [sub |-> "b@x.com", exp |-> FarExp, key |-> "otherkey"] }
MintedTokens == { [sub |-> "b@x.com", exp |-> FarExp, key |-> SECRET_KEY] }

\* the Authorization headers of clients that send the token /login gave them
SessionHeaders == { Bearer(k) : k \in issued }
\* of any client that holds no server-signed token but those from /login
LoginHeaders == {NoAuth} \cup { Bearer(k) : k \in issued \cup ForeignTokens }
\* of a client that holds a token signed elsewhere with the key of line 12
MintedHeaders == { Bearer(k) : k \in MintedTokens }

\* ------------------------------------------------------------- firestore
\* document(id).set(doc)
DocSet(coll, id, doc) ==
    [k \in DOMAIN coll \cup {id} |-> IF k = id THEN doc ELSE coll[k]]

\* document(id).set(fields, merge=True)
DocMerge(coll, id, fields) ==
    IF id \in DOMAIN coll
    THEN DocSet(coll, id,
                [f \in DOMAIN coll[id] \cup DOMAIN fields |->
                    IF f \in DOMAIN fields THEN fields[f] ELSE coll[id][f]])
    ELSE DocSet(coll, id, fields)

\* f"{email}_{datetime.utcnow().isoformat()}"
MealId(email, t) == <<email, isoformat(t)>>

IdLess(x, y) == StrLess(x[2], y[2])

RECURSIVE IdsInOrder(_)
IdsInOrder(S) ==
    IF S = {} THEN <<>>
    ELSE LET m == CHOOSE x \in S : \A y \in S \ {x} : IdLess(x, y)
         IN  <<m>> \o IdsInOrder(S \ {m})

\* collection("meals").where("email", "==", email).stream(): by document id
Stream(email) ==
    LET ids == IdsInOrder({ id \in DOMAIN meals : meals[id].email = email })
    IN  [i \in 1..Len(ids) |-> meals[ids[i]]]

\* ---------------------------------------------------------------- python
\* A float is bits / 2^k, bits a binary numeral (most significant first) of at
\* most MantissaBits digits: the doubles "bowl_size / 100.0" and
\* "base * factor" are computed as IEEE 754 computes them, round to nearest,
\* ties to even.
MantissaBits == 53
\* binary places of a quotient worked out before it is rounded
QuotientBits == 64

RECURSIVE NatBits(_)
NatBits(n) == IF n = 0 THEN <<>> ELSE Append(NatBits(n \div 2), n % 2)

RECURSIVE BitsNat(_)
BitsNat(b) ==
    IF b = <<>> THEN 0 ELSE 2 * BitsNat(SubSeq(b, 1, Len(b) - 1)) + b[Len(b)]

RECURSIVE Strip(_)
Strip(b) == IF b = <<>> \/ b[1] = 1 THEN b ELSE Strip(Tail(b))

RECURSIVE Zeros(_)
Zeros(n) == IF n <= 0 THEN <<>> ELSE Append(Zeros(n - 1), 0)

AnyBit(b) == \E i \in 1..Len(b) : b[i] = 1

RECURSIVE Inc(_)
Inc(b) ==
    IF b = <<>> THEN <<1>>
    ELSE IF b[Len(b)] = 0 THEN Append(SubSeq(b, 1, Len(b) - 1), 1)
    ELSE Append(Inc(SubSeq(b, 1, Len(b) - 1)), 0)

\* the numeral of m * b + carry
RECURSIVE MulBits(_, _, _)
MulBits(b, m, carry) ==
    IF carry >= 0 /\ b = <<>> THEN NatBits(carry)
    ELSE LET v == b[Len(b)] * m + carry
         IN  Append(MulBits(SubSeq(b, 1, Len(b) - 1), m, v \div 2), v % 2)

\* the first n binary places of r / d, and what is left after them
RECURSIVE FracBits(_, _, _)
FracBits(r, d, n) ==
    IF n = 0 THEN <<>> ELSE <<(2 * r) \div d>> \o FracBits((2 * r) % d, d, n - 1)

RECURSIVE FracRem(_, _, _)
FracRem(r, d, n) == IF r < 0 \/ n = 0 THEN r ELSE FracRem((2 * r) % d, d, n - 1)

\* the double nearest to bits / 2^k (+ a nonzero rest below the last bit when
\* sticky)
Double(bits, k, sticky) ==
    LET b == Strip(bits)
        drop == Len(b) - MantissaBits
        kept == SubSeq(b, 1, MantissaBits)
        lost == SubSeq(b, MantissaBits + 1, Len(b))
        up == /\ lost[1] = 1
              /\ AnyBit(Tail(lost)) \/ sticky \/ kept[MantissaBits] = 1
    IN  IF drop <= 0 THEN [bits |-> b, k |-> k]
        ELSE [bits |-> IF up THEN Inc(kept) ELSE kept, k |-> k - drop]

\* n / d as a double, n >= 0
float_div(n, d) ==
    Double(NatBits(n \div d) \o FracBits(n % d, d, QuotientBits), QuotientBits,
           FracRem(n % d, d, QuotientBits) # 0)

\* m * x as a double, m an int >= 0
float_mul(m, x) == Double(MulBits(x.bits, m, 0), x.k, FALSE)

\* round(x) and round(x, 1), the latter in tenths: to the nearest, an exact
\* half to even
round(x, ndigits) ==
    LET b == MulBits(x.bits, IF ndigits = 1 THEN 10 ELSE 1, 0)
        pad == Zeros(x.k - Len(b)) \o b
        q == BitsNat(SubSeq(pad, 1, Len(pad) - x.k))
        fr == SubSeq(pad, Len(pad) - x.k + 1, Len(pad))
    IN  IF x.k = 0 THEN BitsNat(b)
        ELSE IF fr[1] = 0 THEN q
        ELSE IF AnyBit(Tail(fr)) THEN q + 1
        ELSE IF q % 2 = 0 THEN q ELSE q + 1

Abs(n) == IF n < 0 THEN -n ELSE n

\* round(base * (bowl_size / 100.0)[, 1]); the sign of bowl_size carries over
Scaled(base, bowl_size, ndigits) ==
    (IF bowl_size < 0 THEN -1 ELSE 1)
        * round(float_mul(base, float_div(Abs(bowl_size), 100)), ndigits)

\* list.sort(key=created, reverse=True): stable, descending
InsertDesc(r, x) ==
    LET k == Cardinality({ i \in 1..Len(r) : ~StrLess(r[i].created, x.created) })
    IN  SubSeq(r, 1, k) \o <<x>> \o SubSeq(r, k + 1, Len(r))

RECURSIVE SortDesc(_)
SortDesc(s) ==
    IF s = <<>> THEN <<>>
    ELSE InsertDesc(SortDesc(SubSeq(s, 1, Len(s) - 1)), s[Len(s)])

Get(doc, key, default) == IF key \in DOMAIN doc THEN doc[key] ELSE default

\* ------------------------------------------------------------- responses
NoResp == [op |-> "none", status |-> 0, email |-> "", req |-> <<>>, body |-> <<>>]

Response(op, status, email, req, body) ==
    [op |-> op, status |-> status, email |-> email, req |-> req, body |-> body]

Unauthorized(op, auth, req) ==
    Response(op, 401, "", req, [detail |-> get_current_user(auth, now).detail])

\* ------------------------------------------------------ requests in flight
\* a request between two of its steps: "at" names the step it takes next,
\* the other fields are the handler's local variables
Request(op, at, email, req) ==
    [op |-> op, at |-> at, email |-> email, req |-> req, user |-> <<>>,
     bowl_size |-> 0, meal_id |-> <<>>, created |-> <<>>, today_str |-> <<>>]

InFlight == BagToSet(flight)

Started(r) == flight (+) SetToBag({r})

Finished(r) == flight (-) SetToBag({r})

Moved(r, s) == (flight (-) SetToBag({r})) (+) SetToBag({s})

\* how many requests of these routes are in flight
NumInFlight(ops) ==
    BagCardinality([r \in { x \in InFlight : x.op \in ops } |-> flight[r]])

HasRoom == BagCardinality(flight) < MaxInFlight

\* ----------------------------------------------------------------- state
Init ==
    /\ now = 0
    /\ bcryptLegacy \in BOOLEAN
    /\ users = <<>>
    /\ meals = <<>>
    /\ issued = {}
    /\ resp = NoResp
    /\ calls = <<>>
    /\ regs = <<>>
    /\ flight = EmptyBag

\* time passes, between requests and between the steps of a request
Tick ==
    /\ now < MaxTime
    /\ now' = now + 1
    /\ resp' = NoResp
    /\ UNCHANGED <<bcryptLegacy, users, meals, issued, calls, regs, flight>>

\* --------------------------------------------------------------- /register
UserDoc(data, hashed_pw) ==
    [name |-> data.name, email |-> data.email, password |-> hashed_pw,
     goal |-> 2000, bowl_size |-> data.bowl_size,
     target_weight |-> data.target_weight]

Registered(data, hashed_pw) ==
    [email |-> data.email, password |-> data.password, hash |-> hashed_pw]

\* RegisterRead without the existence check of lines 77-78
RegisterRead_unchecked(data) ==
    /\ HasRoom
    /\ flight' = Started(Request("register", "set", data.email, data))
    /\ resp' = NoResp
    /\ UNCHANGED <<now, bcryptLegacy, users, meals, issued, calls, regs>>

\* users_ref.get() and the existence check
RegisterRead(data) ==
    /\ IF data.email \in DOMAIN users
       THEN /\ resp' = Response("register", 400, data.email, data,
                                [detail |-> "User already exists"])
            /\ UNCHANGED flight
       ELSE /\ HasRoom
            /\ flight' = Started(Request("register", "set", data.email, data))
            /\ resp' = NoResp
    /\ UNCHANGED <<now, bcryptLegacy, users, meals, issued, calls, regs>>

\* the hash, users_ref.set(...) and the answer
RegisterWrite(r, salt) ==
    /\ r.op = "register" /\ r.at = "set"
    /\ flight' = Finished(r)
    /\ IF BcryptRaises(r.req.password)
       THEN /\ resp' = Response("register", 500, r.email, r.req,
                                [detail |-> "ValueError"])
            /\ UNCHANGED <<users, regs>>
       ELSE /\ users' = DocSet(users, r.email,
                               UserDoc(r.req, hashpw(r.req.password, salt)))
            /\ regs' = Append(regs, Registered(r.req, hashpw(r.req.password, salt)))
            /\ resp' = Response("register", 200, r.email, r.req,
                                [ok |-> TRUE, msg |-> "User registered successfully"])
    /\ UNCHANGED <<now, bcryptLegacy, meals, issued, calls>>

\* ------------------------------------------------------------------ /login
LoginBody(user, token) ==
    [ok |-> TRUE, token |-> token, email |-> user.email,
     name |-> Get(user, "name", ""),
     bowl_size |-> Get(user, "bowl_size", 250),
     target_weight |-> Get(user, "target_weight", 0)]

\* the users read and the password check, up to user["email"] of line 101
LoginGet(data) ==
    /\ IF data.email \notin DOMAIN users
       THEN /\ resp' = Response("login", 401, data.email, data,
                                [detail |-> "Invalid credentials"])
            /\ UNCHANGED flight
       ELSE IF "password" \notin DOMAIN users[data.email]
       THEN /\ resp' = Response("login", 500, data.email, data,
                                [detail |-> "KeyError"])
            /\ UNCHANGED flight
       ELSE IF BcryptRaises(data.password)
       THEN /\ resp' = Response("login", 500, data.email, data,
                                [detail |-> "ValueError"])
            /\ UNCHANGED flight
       ELSE IF ~checkpw(data.password, users[data.email].password)
       THEN /\ resp' = Response("login", 401, data.email, data,
                                [detail |-> "Invalid credentials"])
            /\ UNCHANGED flight
       ELSE IF "email" \notin DOMAIN users[data.email]
       THEN /\ resp' = Response("login", 500, data.email, data,
                                [detail |-> "KeyError"])
            /\ UNCHANGED flight
       ELSE /\ HasRoom
            /\ Cardinality(issued) + NumInFlight({"login"}) < MaxTokens
            /\ flight' = Started([Request("login", "token", data.email, data)
                                     EXCEPT !.user = users[data.email]])
            /\ resp' = NoResp
    /\ UNCHANGED <<now, bcryptLegacy, users, meals, issued, calls, regs>>

\* create_access_token reads the clock; the answer
LoginToken(r) ==
    /\ r.op = "login" /\ r.at = "token"
    /\ flight' = Finished(r)
    /\ LET token == create_access_token([sub |-> r.user.email], now)
       IN  /\ issued' = issued \cup {token}
           /\ resp' = Response("login", 200, r.email, r.req, LoginBody(r.user, token))
    /\ UNCHANGED <<now, bcryptLegacy, users, meals, calls, regs>>

\* ------------------------------------------------- Depends(get_current_user)
MealRoutes == {"analyze", "add_meal"}

\* the step a handler starts with
FirstStep(op) ==
    CASE op = "analyze" -> "get"
      [] op = "add_meal" -> "id"
      [] op = "today" -> "date"
      [] op = "history" -> "stream"
      [] op = "get_goal" -> "get"
      [] op = "set_goal" -> "check"

\* the dependency runs before the handler does: 401, or the handler is
\* called with the token's email
Depends(op, auth, req) ==
    /\ IF ~get_current_user(auth, now).ok
       THEN /\ resp' = Unauthorized(op, auth, req)
            /\ UNCHANGED flight
       ELSE /\ HasRoom
            /\ op \in MealRoutes => Len(calls) + NumInFlight(MealRoutes) < MaxMeals
            /\ flight' = Started(Request(op, FirstStep(op),
                                         get_current_user(auth, now).email, req))
            /\ resp' = NoResp
    /\ UNCHANGED <<now, bcryptLegacy, users, meals, issued, calls, regs>>

\* ------------------------------------------------------ /analyze, /add-meal
\* len(base64.b64decode(image)), or 25000 when decoding raises
ImageSize(image) == IF image.ok THEN image.len ELSE 25000

AnalyzeMacros(s, bowl_size) ==
    [calories |-> Scaled(150 + (s % 151), bowl_size, 0),
     protein |-> Scaled(5 + (s % 16), bowl_size, 1),
     carbs |-> Scaled(20 + (s % 31), bowl_size, 1),
     fats |-> Scaled(5 + (s % 11), bowl_size, 1)]

\* AnalyzeMacros over the image sizes and bowl sizes that occur, worked out once
AnalyzeTable ==
    [s \in { ImageSize(image) : image \in Images }, bowl_size \in BowlSizes \cup {250} |->
        AnalyzeMacros(s, bowl_size)]

\* analyze: the users read, 404 or the account's bowl size
AnalyzeGet(r) ==
    /\ r.op = "analyze" /\ r.at = "get"
    /\ IF r.email \notin DOMAIN users
       THEN /\ resp' = Response("analyze", 404, r.email, r.req,
                                [detail |-> "User not found"])
            /\ flight' = Finished(r)
       ELSE /\ resp' = NoResp
            /\ flight' = Moved(r, [r EXCEPT !.at = "id",
                                      !.bowl_size = Get(users[r.email], "bowl_size", 250)])
    /\ UNCHANGED <<now, bcryptLegacy, users, meals, issued, calls, regs>>

\* meal_id = f"{email}_{datetime.utcnow().isoformat()}": the first clock read
StampId(r) ==
    /\ r.op \in MealRoutes /\ r.at = "id"
    /\ flight' = Moved(r, [r EXCEPT !.at = "created", !.meal_id = MealId(r.email, now)])
    /\ resp' = NoResp
    /\ UNCHANGED <<now, bcryptLegacy, users, meals, issued, calls, regs>>

\* "created": datetime.utcnow().isoformat(): the second clock read
StampCreated(r) ==
    /\ r.op \in MealRoutes /\ r.at = "created"
    /\ flight' = Moved(r, [r EXCEPT !.at = "set", !.created = isoformat(now)])
    /\ resp' = NoResp
    /\ UNCHANGED <<now, bcryptLegacy, users, meals, issued, calls, regs>>

MealName(r) == IF r.op = "analyze" THEN "Bowl Meal" ELSE r.req.name

MealMacros(r) ==
    IF r.op = "analyze"
    THEN AnalyzeTable[ImageSize(r.req.image), r.bowl_size]
    ELSE r.req.macros

MealDoc(r) ==
    [email |-> r.email, name |-> MealName(r), macros |-> MealMacros(r),
     created |-> r.created]

\* document(meal_id).set(...) reaches the store; the answer
StoreMeal(r) ==
    /\ r.op \in MealRoutes /\ r.at = "set"
    /\ flight' = Finished(r)
    /\ meals' = DocSet(meals, r.meal_id, MealDoc(r))
    /\ calls' = Append(calls, [op |-> r.op, id |-> r.meal_id, doc |-> MealDoc(r)])
    /\ resp' = IF r.op = "analyze"
               THEN Response("analyze", 200, r.email, r.req,
                             [ok |-> TRUE, macros |-> MealMacros(r),
                              bowl_size |-> r.bowl_size])
               ELSE Response("add_meal", 200, r.email, r.req,
                             [ok |-> TRUE, msg |-> "Meal added"])
    /\ UNCHANGED <<now, bcryptLegacy, users, issued, regs>>

\* ------------------------------------------------------- /today, /history
\* data.get("macros", {}).get("calories", 0) or 0
Calories(doc) == Get(Get(doc, "macros", <<>>), "calories", 0)

RECURSIVE SumCalories(_)
SumCalories(s) ==
    IF s = <<>> THEN 0 ELSE Calories(Head(s)) + SumCalories(Tail(s))

\* today_str = datetime.utcnow().strftime("%Y-%m-%d")
TodayDate(r) ==
    /\ r.op = "today" /\ r.at = "date"
    /\ flight' = Moved(r, [r EXCEPT !.at = "stream", !.today_str = strftime_date(now)])
    /\ resp' = NoResp
    /\ UNCHANGED <<now, bcryptLegacy, users, meals, issued, calls, regs>>

TodayBody(email, today_str) ==
    LET IsToday(doc) == Prefix10(doc.created) = today_str
        today_meals == SelectSeq(Stream(email), IsToday)
    IN  [email |-> email, date |-> today_str,
         calories |-> SumCalories(today_meals), meals |-> today_meals]

\* the meals query, the loop over it and the answer
TodayStream(r) ==
    /\ r.op = "today" /\ r.at = "stream"
    /\ flight' = Finished(r)
    /\ resp' = Response("today", 200, r.email, <<>>, TodayBody(r.email, r.today_str))
    /\ UNCHANGED <<now, bcryptLegacy, users, meals, issued, calls, regs>>

HistoryBody(email) == [email |-> email, meals |-> SortDesc(Stream(email))]

GetHistory(r) ==
    /\ r.op = "history" /\ r.at = "stream"
    /\ flight' = Finished(r)
    /\ resp' = Response("history", 200, r.email, <<>>, HistoryBody(r.email))
    /\ UNCHANGED <<now, bcryptLegacy, users, meals, issued, calls, regs>>

\* ------------------------------------------------------ /get-goal, /set-goal
GetGoalBody(email) ==
    IF email \in DOMAIN users
    THEN [goal |-> Get(users[email], "goal", 2000)]
    ELSE [goal |-> 2000]

GetGoal(r) ==
    /\ r.op = "get_goal" /\ r.at = "get"
    /\ flight' = Finished(r)
    /\ resp' = Response("get_goal", 200, r.email, <<>>, GetGoalBody(r.email))
    /\ UNCHANGED <<now, bcryptLegacy, users, meals, issued, calls, regs>>

\* SetGoal with "goal < 0" for "goal <= 0"
SetGoal_accepting_zero(r) ==
    /\ r.op = "set_goal" /\ r.at = "check"
    /\ flight' = Finished(r)
    /\ IF r.req.goal < 0
       THEN /\ resp' = Response("set_goal", 400, r.email, r.req,
                                [detail |-> "Goal must be positive"])
            /\ UNCHANGED users
       ELSE /\ users' = DocMerge(users, r.email, [goal |-> r.req.goal])
            /\ resp' = Response("set_goal", 200, r.email, r.req,
                                [ok |-> TRUE, goal |-> r.req.goal])
    /\ UNCHANGED <<now, bcryptLegacy, meals, issued, calls, regs>>

\* the check of the goal, then set({"goal": ...}, merge=True) and the answer
SetGoal(r) ==
    /\ r.op = "set_goal" /\ r.at = "check"
    /\ flight' = Finished(r)
    /\ IF r.req.goal <= 0
       THEN /\ resp' = Response("set_goal", 400, r.email, r.req,
                                [detail |-> "Goal must be positive"])
            /\ UNCHANGED users
       ELSE /\ users' = DocMerge(users, r.email, [goal |-> r.req.goal])
            /\ resp' = Response("set_goal", 200, r.email, r.req,
                                [ok |-> TRUE, goal |-> r.req.goal])
    /\ UNCHANGED <<now, bcryptLegacy, meals, issued, calls, regs>>

\* ---------------------------------------------------------- specifications
ShortPasswords == { p \in Passwords : Len(p) < BcryptMaxBytes }

\* one bcrypt build, for the specifications in which every password is short
InitShort == Init /\ bcryptLegacy

\* accounts, sessions and goals; server-signed tokens come from /login only
\* (gensalt draws one salt here; SpecLogin and SpecRace draw from Salts)
Next ==
    \/ Tick
    \/ \E data \in RegisterReqs : data.password \in ShortPasswords /\ RegisterRead(data)
    \/ \E r \in InFlight : RegisterWrite(r, 1)
    \/ \E data \in LoginReqs : data.password \in ShortPasswords /\ LoginGet(data)
    \/ \E r \in InFlight : LoginToken(r)
    \/ \E auth \in LoginHeaders : Depends("get_goal", auth, <<>>)
    \/ \E auth \in LoginHeaders, data \in GoalReqs : Depends("set_goal", auth, data)
    \/ \E r \in InFlight : GetGoal(r)
    \/ \E r \in InFlight : SetGoal(r)

Spec == InitShort /\ [][Next]_vars

\* the meal ledger, under the same sessions
NextMeals ==
    \/ Tick
    \/ \E data \in RegisterReqs : data.password \in ShortPasswords /\ data.email = "a@x.com" /\ RegisterRead(data)
    \/ \E r \in InFlight : RegisterWrite(r, 1)
    \/ \E data \in LoginReqs : data.password \in ShortPasswords /\ data.email = "a@x.com" /\ LoginGet(data)
    \/ \E r \in InFlight : LoginToken(r)
    \/ \E auth \in SessionHeaders, req \in AnalyzeReqs : Depends("analyze", auth, req)
    \/ \E auth \in SessionHeaders, data \in MealReqs : Depends("add_meal", auth, data)
    \/ \E auth \in SessionHeaders : Depends("today", auth, <<>>)
    \/ \E auth \in SessionHeaders : Depends("history", auth, <<>>)
    \/ \E r \in InFlight : AnalyzeGet(r)
    \/ \E r \in InFlight : StampId(r)
    \/ \E r \in InFlight : StampCreated(r)
    \/ \E r \in InFlight : StoreMeal(r)
    \/ \E r \in InFlight : TodayDate(r)
    \/ \E r \in InFlight : TodayStream(r)
    \/ \E r \in InFlight : GetHistory(r)

SpecMeals == InitShort /\ [][NextMeals]_vars

\* requests may also carry tokens signed with the key of line 12 that /login
\* never returned
NextAnyToken ==
    \/ Tick
    \/ \E data \in RegisterReqs : data.password \in ShortPasswords /\ data.email = "b@x.com" /\ RegisterRead(data)
    \/ \E r \in InFlight : RegisterWrite(r, 1)
    \/ \E auth \in MintedHeaders, req \in AnalyzeReqs : Depends("analyze", auth, req)
    \/ \E auth \in MintedHeaders, data \in MealReqs : Depends("add_meal", auth, data)
    \/ \E auth \in MintedHeaders : Depends("get_goal", auth, <<>>)
    \/ \E auth \in MintedHeaders, data \in GoalReqs : Depends("set_goal", auth, data)
    \/ \E r \in InFlight : AnalyzeGet(r)
    \/ \E r \in InFlight : StampId(r)
    \/ \E r \in InFlight : StampCreated(r)
    \/ \E r \in InFlight : StoreMeal(r)
    \/ \E r \in InFlight : GetGoal(r)
    \/ \E r \in InFlight : SetGoal(r)

SpecAnyToken == InitShort /\ [][NextAnyToken]_vars

\* one account, passwords of every length, both bcrypt builds, gensalt
\* drawing from Salts
NextLogin ==
    \/ Tick
    \/ \E data \in RegisterReqs : data.email = "a@x.com" /\ RegisterRead(data)
    \/ \E r \in InFlight, salt \in Salts : RegisterWrite(r, salt)
    \/ \E data \in LoginReqs : data.email = "a@x.com" /\ LoginGet(data)
    \/ \E r \in InFlight : LoginToken(r)

SpecLogin == Init /\ [][NextLogin]_vars

\* /register alone, gensalt drawing from Salts
NextRace ==
    \/ \E data \in RegisterReqs : RegisterRead(data)
    \/ \E r \in InFlight, salt \in Salts : RegisterWrite(r, salt)

SpecRace == Init /\ [][NextRace]_vars

\* ------------------------------------------------------------------ claims
RECURSIVE SumKey(_, _)
SumKey(docs, k) ==
    IF docs = <<>> THEN 0
    ELSE Get(Head(docs).macros, k, 0) + SumKey(Tail(docs), k)

\* the meals of the successful /add-meal and /analyze calls of an account
LoggedBy(email) ==
    LET Mine(c) == c.doc.email = email
        mine == SelectSeq(calls, Mine)
    IN  [i \in 1..Len(mine) |-> mine[i].doc]

LoggedOn(email, date) ==
    LET OnDate(doc) == Prefix10(doc.created) = date
    IN  SelectSeq(LoggedBy(email), OnDate)

\* the emails /register has answered 200 for
RegisteredEmails == { regs[i].email : i \in 1..Len(regs) }

\* a /register request for this email passes the existence check in this step
PassesCheck(e) ==
    \E r \in BagToSet(flight') :
        /\ r.op = "register"
        /\ r.email = e
        /\ CopiesIn(r, flight') > CopiesIn(r, flight)

\* C1: the totals /today returns are the sums of calories, protein, carbs
\* and fats over the meals the account logged on the UTC date of the request.
C1_TodayTotals ==
    (resp.op = "today" /\ resp.status = 200) =>
        \A k \in MacroKeys :
            /\ k \in DOMAIN resp.body
            /\ resp.body[k] = SumKey(LoggedOn(resp.email, resp.body.date), k)

\* C2: /history is sorted by "created", latest first, and holds one record
\* for each successful /add-meal and /analyze call of the account.
C2_HistoryComplete ==
    (resp.op = "history" /\ resp.status = 200) =>
        /\ \A i \in 1..(Len(resp.body.meals) - 1) :
               ~StrLess(resp.body.meals[i].created, resp.body.meals[i + 1].created)
        /\ Len(resp.body.meals) = Len(LoggedBy(resp.email))

\* C3: once a /register has answered 200 for an email, a /register for that
\* email that arrives later does not pass the existence check: it answers 400.
C3_SecondRegisterConflicts ==
    [][\A e \in RegisteredEmails :
           /\ ~PassesCheck(e)
           /\ (resp'.op = "register" /\ resp'.email = e /\ flight' = flight)
                  => resp'.status = 400]_vars

\* C3 happens: a duplicate /register refused after /set-goal changed the account
C3_Witness ==
    /\ resp.op = "register"
    /\ resp.status = 400
    /\ resp.email \in RegisteredEmails
    /\ users[resp.email].goal = 2200

\* C4: a token /login returned carries the subject's email and the expiry
\* issue time + one day (in whole seconds); get_current_user accepts it, as
\* that email, exactly while the clock is before that expiry, and never
\* accepts the same token signed with another key.
C4_TokenLifetime ==
    /\ (resp.op = "login" /\ resp.status = 200) =>
           /\ resp.body.token.sub = resp.req.email
           /\ resp.body.token.exp = (now + TicksPerDay) \div MicrosPerSec
    /\ \A k \in issued :
           /\ get_current_user(Bearer(k), now).ok <=> (now < k.exp * MicrosPerSec)
           /\ get_current_user(Bearer(k), now).ok =>
                  get_current_user(Bearer(k), now).email = k.sub
           /\ ~get_current_user(Bearer([k EXCEPT !.key = "otherkey"]), now).ok

\* C4 happens: a request is refused because the token /login returned has
\* expired, less than a whole day after some moment it could have been issued
C4_Witness ==
    /\ resp.status = 401
    /\ resp.body.detail = "Token expired"
    /\ \E k \in issued : k.exp * MicrosPerSec <= now

\* C5: /login answers 200 only to the password of the /register call that
\* created the account; every other /login answers 401 and returns no token.
C5_LoginNeedsThePassword ==
    (resp.op = "login"
        /\ ~\E i \in 1..Len(regs) :
               regs[i].email = resp.req.email /\ regs[i].password = resp.req.password)
    => (resp.status = 401 /\ "token" \notin DOMAIN resp.body)

\* C6: an authenticated /set-goal with a goal <= 0 answers 400 and leaves the
\* users store, and so what /get-goal returns, as it was.
C6_RejectedGoalChangesNothing ==
    [][(resp'.op = "set_goal" /\ resp'.status # 401 /\ resp'.req.goal <= 0)
           => /\ resp'.status = 400
              /\ users' = users
              /\ \A e \in Emails : GetGoalBody(e)' = GetGoalBody(e)]_vars

\* C6 happens: a non-positive goal refused while a goal set earlier is stored
C6_Witness ==
    /\ resp.op = "set_goal"
    /\ resp.status = 400
    /\ resp.req.goal <= 0
    /\ GetGoalBody(resp.email).goal = 2200

\* C7: for an authenticated email with no users document, /add-meal,
\* /get-goal and /set-goal (with a positive goal) answer 404 and write
\* nothing.
C7_UnknownAccountNotFound ==
    [][(/\ resp'.op \in {"add_meal", "get_goal", "set_goal"}
        /\ resp'.status # 401
        /\ resp'.email \notin DOMAIN users
        /\ resp'.op = "set_goal" => resp'.req.goal > 0)
           => /\ resp'.status = 404
              /\ users' = users
              /\ meals' = meals]_vars

\* C8: a stored meal record stays in the meals store, unchanged, for ever.
C8_MealsImmutable ==
    [][\A id \in DOMAIN meals : id \in DOMAIN meals' /\ meals'[id] = meals[id]]_vars

\* C9: of the /register requests for one email at most one answers 200, and
\* the stored hash is the one that request wrote.
C9_OneRegistrationWins ==
    \A e \in Emails :
        /\ Cardinality({ i \in 1..Len(regs) : regs[i].email = e }) <= 1
        /\ e \in DOMAIN users =>
               \E i \in 1..Len(regs) : regs[i].email = e /\ users[e].password = regs[i].hash

\* C10: with server-signed tokens coming from /login only, every users
\* document was written by a successful /register and holds name, email and
\* password hash.
C10_UsersComeFromRegister ==
    \A e \in DOMAIN users :
        /\ {"name", "email", "password"} \subseteq DOMAIN users[e]
        /\ users[e].email = e
        /\ \E i \in 1..Len(regs) : regs[i].email = e /\ regs[i].hash = users[e].password

\* C10 happens: /set-goal has merged a goal into an account
C10_Witness ==
    /\ resp.op = "set_goal"
    /\ resp.status = 200
    /\ users[resp.email].goal = resp.req.goal

====
